---- MODULE Spec2Model ----
(***************************************************************************)
(* Verification model of proc-macro-workshop:                              *)
(*   - the bit codec  (src/bitfield/src/lib.rs, private::Num/Load/Store)   *)
(*   - the Specifier accessors (Specifier::get / Specifier::set, Bn, bool) *)
(*   - the layout generated by #[bitfield] (src/bitfield/impl/src/imp.rs)  *)
(*   - #[derive(BitfieldSpecifier)] (src/bitfield/impl/src/derive.rs)      *)
(*   - #[sorted] on an enum (src/sorted/src/imp.rs, sorted_enum)           *)
(*   - the builder generated by #[derive(Builder)] (src/builder/src/imp.rs)*)
(*                                                                         *)
(* An unsigned machine integer is the set of the positions of its 1 bits   *)
(* (bit 0 the least significant): 5 is {0, 2}.  Buffers are sequences of   *)
(* bytes 0..255, element k+1 being data[k].                                *)
(***************************************************************************)
EXTENDS Integers, Sequences, FiniteSets, TLC

\* ------------------------------------------------------------------------
\* Machine integers
\* ------------------------------------------------------------------------

\* u8::BITS, u16::BITS, u32::BITS, u64::BITS, and the width of u128.
U8 == 8
U16 == 16
U32 == 32
U64 == 64
U128 == 128

Types == {U8, U16, U32, U64}

\* The bit positions of the unsigned type of w bits.
Bit(w) == 0..(w - 1)

\* Self::MAX of the unsigned type of w bits.
MAX(w) == Bit(w)

\* The value 0 of every unsigned type.
ZERO == {}

\* x >> k on an unsigned type (k < width): zeroes enter at the top.
Shr(x, k) == {i - k : i \in {j \in x : j >= k}}

\* x << k on the unsigned type of w bits (k < w): the bits shifted past the top are lost.
Shl(x, k, w) == {i + k : i \in x} \cap Bit(w)

\* x & y, x | y, and !x on the unsigned type of w bits.
And(x, y) == x \cap y
Or(x, y) == x \cup y
Not(x, w) == Bit(w) \ x

\* x as uW between unsigned types: truncation or zero extension.
Cast(x, w) == x \cap Bit(w)

\* One byte of a buffer as a u8, and back.
ByteBits(b) == {i \in Bit(U8) : (b \div (2 ^ i)) % 2 = 1}
BitsByte(x) ==
    LET B(i) == IF i \in x THEN 2 ^ i ELSE 0
    IN B(0) + B(1) + B(2) + B(3) + B(4) + B(5) + B(6) + B(7)

\* uW::from_le_bytes of W/8 bytes, and uW::to_le_bytes of the type of w bits.
from_le_bytes(bs) ==
    UNION {{8 * (k - 1) + i : i \in ByteBits(bs[k])} : k \in 1..Len(bs)}
to_le_bytes(x, w) ==
    [k \in 1..(w \div 8) |-> BitsByte({i - 8 * (k - 1) : i \in {j \in x : (j \div 8) + 1 = k}})]

\* [b1, .., bn, 0, .., 0]: the window padded with zero bytes to n bytes.
Pad(bs, n) == bs \o [k \in 1..(n - Len(bs)) |-> 0]

\* ------------------------------------------------------------------------
\* private::Num
\* ------------------------------------------------------------------------

\* BITS_RANGE with every band starting at 1 (1 ..= Self::BITS for each type).
BITS_RANGE_from_one(ty) == 1..ty

\* BITS_RANGE of the impls of private::Num for u8, u16, u32, u64.
BITS_RANGE(ty) ==
    CASE ty = U8 -> 1..U8
      [] ty = U16 -> (U8 + 1)..U16
      [] ty = U32 -> (U16 + 1)..U32
      [] ty = U64 -> (U32 + 1)..U64

\* view returning &data[..=end], the window not cut at begin.
view_from_start(ty, off, len, data) ==
    IF len \notin BITS_RANGE(ty)
    THEN [site |-> "range", begin |-> 0, end |-> 0]
    ELSE LET end == (off + len - 1) \div 8
         IN IF Len(data) = 0 \/ end + 1 > Len(data)
            THEN [site |-> "bounds", begin |-> 0, end |-> end]
            ELSE [site |-> "ok", begin |-> 0, end |-> end]

\* Num::view: the panic site reached ("range": the BITS_RANGE check,
\* "bounds": the buffer check) or "ok" with the inclusive byte window.
view(ty, off, len, data) ==
    IF len \notin BITS_RANGE(ty)
    THEN [site |-> "range", begin |-> 0, end |-> 0]
    ELSE LET begin == off \div 8
             end == (off + len - 1) \div 8
         IN IF Len(data) = 0 \/ end + 1 > Len(data)
            THEN [site |-> "bounds", begin |-> begin, end |-> end]
            ELSE [site |-> "ok", begin |-> begin, end |-> end]

\* view_mut with the buffer check off by one (end + 1 >= data.len()).
view_mut_off_by_one(ty, off, len, data) ==
    IF len \notin BITS_RANGE(ty)
    THEN [site |-> "range", begin |-> 0, end |-> 0]
    ELSE LET begin == off \div 8
             end == (off + len - 1) \div 8
         IN IF Len(data) = 0 \/ end + 1 >= Len(data)
            THEN [site |-> "bounds", begin |-> begin, end |-> end]
            ELSE [site |-> "ok", begin |-> begin, end |-> end]

\* Num::view_mut: the same checks, for the mutable window.
view_mut(ty, off, len, data) ==
    IF len \notin BITS_RANGE(ty)
    THEN [site |-> "range", begin |-> 0, end |-> 0]
    ELSE LET begin == off \div 8
             end == (off + len - 1) \div 8
         IN IF Len(data) = 0 \/ end + 1 > Len(data)
            THEN [site |-> "bounds", begin |-> begin, end |-> end]
            ELSE [site |-> "ok", begin |-> begin, end |-> end]

\* &data[begin..=end]
Window(data, v) == SubSeq(data, v.begin + 1, v.end + 1)

\* data with the bytes of the window replaced by w.
PutWindow(data, v, w) ==
    [k \in 1..Len(data) |->
        IF k >= v.begin + 1 /\ k <= v.end + 1 THEN w[k - v.begin] ELSE data[k]]

\* split: first byte, interior bytes, last byte of a slice of at least 2 bytes.
split(d) == [h |-> d[1], mid |-> SubSeq(d, 2, Len(d) - 1), t |-> d[Len(d)]]

\* ------------------------------------------------------------------------
\* private::Load
\* ------------------------------------------------------------------------

\* The result of a load: the panic site or "ok" with the value.
Loaded(ty, x) == [site |-> "ok", val |-> x]
LoadPanic(ty, site) == [site |-> site, val |-> ZERO]

\* load_arm without the final "& mask".
load_arm_no_mask(ty, w, off, mask, wide) ==
    Cast(Shr(from_le_bytes(Pad(w, wide \div 8)), off), ty)

\* One match arm of load: (wide::from_le_bytes(window, 0..) >> off) as Self & mask.
load_arm(ty, w, off, mask, wide) ==
    And(Cast(Shr(from_le_bytes(Pad(w, wide \div 8)), off), ty), mask)

load_u8(off, len, data) ==
    LET v == view(U8, off, len, data) IN
    IF v.site # "ok" THEN LoadPanic(U8, v.site)
    ELSE LET w == Window(data, v)
             mask == Shr(MAX(U8), U8 - len)
             o == off % U8
         IN CASE Len(w) = 1 -> Loaded(U8, load_arm(U8, w, o, mask, U8))
              [] Len(w) = 2 -> Loaded(U8, load_arm(U8, w, o, mask, U16))
              [] OTHER -> LoadPanic(U8, "unreachable")

load_u16(off, len, data) ==
    LET v == view(U16, off, len, data) IN
    IF v.site # "ok" THEN LoadPanic(U16, v.site)
    ELSE LET w == Window(data, v)
             mask == Shr(MAX(U16), U16 - len)
             o == off % U8
         IN CASE Len(w) = 2 -> Loaded(U16, load_arm(U16, w, o, mask, U16))
              [] Len(w) = 3 -> Loaded(U16, load_arm(U16, w, o, mask, U32))
              [] OTHER -> LoadPanic(U16, "unreachable")

load_u32(off, len, data) ==
    LET v == view(U32, off, len, data) IN
    IF v.site # "ok" THEN LoadPanic(U32, v.site)
    ELSE LET w == Window(data, v)
             mask == Shr(MAX(U32), U32 - len)
             o == off % U8
         IN CASE Len(w) \in {3, 4} -> Loaded(U32, load_arm(U32, w, o, mask, U32))
              [] Len(w) = 5 -> Loaded(U32, load_arm(U32, w, o, mask, U64))
              [] OTHER -> LoadPanic(U32, "unreachable")

load_u64(off, len, data) ==
    LET v == view(U64, off, len, data) IN
    IF v.site # "ok" THEN LoadPanic(U64, v.site)
    ELSE LET w == Window(data, v)
             mask == Shr(MAX(U64), U64 - len)
             o == off % U8
         IN CASE Len(w) \in {5, 6, 7, 8} -> Loaded(U64, load_arm(U64, w, o, mask, U64))
              [] Len(w) = 9 -> Loaded(U64, load_arm(U64, w, o, mask, U128))
              [] OTHER -> LoadPanic(U64, "unreachable")

\* <ty as private::Load>::load
load(ty, off, len, data) ==
    CASE ty = U8 -> load_u8(off, len, data)
      [] ty = U16 -> load_u16(off, len, data)
      [] ty = U32 -> load_u32(off, len, data)
      [] ty = U64 -> load_u64(off, len, data)

\* ------------------------------------------------------------------------
\* private::Store
\* ------------------------------------------------------------------------

\* The result of a store: the panic site (buffer as it was, every panic
\* precedes the first assignment) or "ok" with the buffer after the call.
Stored(d) == [site |-> "ok", data |-> d]
StorePanic(site, data) == [site |-> site, data |-> data]

\* store_byte with the byte overwritten (data[0] = val << off, the "b & !m" lost).
store_byte_overwritten(w, off, mask, val) ==
    << BitsByte(Shl(val, off % U8, U8)) >>

\* The one-byte arm of u8::store:
\*   m = mask << off;  data[0] = b & !m | (val << off)
store_byte(w, off, mask, val) ==
    LET o == off % U8
        m == Shl(mask, o, U8)
        b == ByteBits(w[1])
    IN << BitsByte(Or(And(b, Not(m, U8)), Shl(val, o, U8))) >>

\* store_arm with the value not shifted to the bit offset (buf = val.to_le_bytes()).
store_arm_unshifted(w, off, len, val, wide) ==
    LET mh == Shl(MAX(U8), off % U8, U8)
        mt == Shl(MAX(U8), (off + len) % U8, U8)
        buf == to_le_bytes(Cast(val, wide), wide)
        s == split(SubSeq(buf, 1, Len(w)))
        h == ByteBits(w[1])
        t == ByteBits(w[Len(w)])
    IN << BitsByte(Or(And(h, Not(mh, U8)), ByteBits(s.h))) >>
         \o s.mid
         \o << BitsByte(Or(And(t, mt), ByteBits(s.t))) >>

\* store_arm with the first byte overwritten (data[0] = head, the "h & !mh" lost).
store_arm_head_overwritten(w, off, len, val, wide) ==
    LET mt == Shl(MAX(U8), (off + len) % U8, U8)
        buf == to_le_bytes(Shl(Cast(val, wide), off % U8, wide), wide)
        s == split(SubSeq(buf, 1, Len(w)))
        t == ByteBits(w[Len(w)])
    IN << s.h >> \o s.mid \o << BitsByte(Or(And(t, mt), ByteBits(s.t))) >>

\* store_arm with the tail mask complemented (data[last] = t & !mt | tail).
store_arm_tail_mask_inverted(w, off, len, val, wide) ==
    LET mh == Shl(MAX(U8), off % U8, U8)
        mt == Shl(MAX(U8), (off + len) % U8, U8)
        buf == to_le_bytes(Shl(Cast(val, wide), off % U8, wide), wide)
        s == split(SubSeq(buf, 1, Len(w)))
        h == ByteBits(w[1])
        t == ByteBits(w[Len(w)])
    IN << BitsByte(Or(And(h, Not(mh, U8)), ByteBits(s.h))) >>
         \o s.mid
         \o << BitsByte(Or(And(t, Not(mt, U8)), ByteBits(s.t))) >>

\* store_arm with the last byte overwritten (data[last] = tail, the "t & mt" lost).
store_arm_no_tail_mask(w, off, len, val, wide) ==
    LET mh == Shl(MAX(U8), off % U8, U8)
        buf == to_le_bytes(Shl(Cast(val, wide), off % U8, wide), wide)
        s == split(SubSeq(buf, 1, Len(w)))
        h == ByteBits(w[1])
    IN << BitsByte(Or(And(h, Not(mh, U8)), ByteBits(s.h))) >> \o s.mid \o << s.t >>

\* A multi-byte arm of store (the same statements in every arm, the value
\* widened to `wide` bits before the shift):
\*   mh = u8::MAX << off % 8;  mt = u8::MAX << (off + len) % 8
\*   buf = ((val as wide) << off % 8).to_le_bytes()
\*   (head, buf, tail) = split(&buf[..data.len()])
\*   data[0] = h & !mh | head;  data[1..last] = buf;  data[last] = t & mt | tail
store_arm(w, off, len, val, wide) ==
    LET mh == Shl(MAX(U8), off % U8, U8)
        mt == Shl(MAX(U8), (off + len) % U8, U8)
        buf == to_le_bytes(Shl(Cast(val, wide), off % U8, wide), wide)
        s == split(SubSeq(buf, 1, Len(w)))
        h == ByteBits(w[1])
        t == ByteBits(w[Len(w)])
    IN << BitsByte(Or(And(h, Not(mh, U8)), ByteBits(s.h))) >>
         \o s.mid
         \o << BitsByte(Or(And(t, mt), ByteBits(s.t))) >>

store_u8(off, len, data, val) ==
    LET v == view_mut(U8, off, len, data) IN
    IF v.site # "ok" THEN StorePanic(v.site, data)
    ELSE LET w == Window(data, v)
             mask == Shr(MAX(U8), U8 - len)
             x == And(val, mask)
         IN CASE Len(w) = 1 -> Stored(PutWindow(data, v, store_byte(w, off, mask, x)))
              [] Len(w) = 2 -> Stored(PutWindow(data, v, store_arm(w, off, len, x, U16)))
              [] OTHER -> StorePanic("unreachable", data)

store_u16(off, len, data, val) ==
    LET v == view_mut(U16, off, len, data) IN
    IF v.site # "ok" THEN StorePanic(v.site, data)
    ELSE LET w == Window(data, v)
             mask == Shr(MAX(U16), U16 - len)
             x == And(val, mask)
         IN CASE Len(w) = 2 -> Stored(PutWindow(data, v, store_arm(w, off, len, x, U16)))
              [] Len(w) = 3 -> Stored(PutWindow(data, v, store_arm(w, off, len, x, U32)))
              [] OTHER -> StorePanic("unreachable", data)

store_u32(off, len, data, val) ==
    LET v == view_mut(U32, off, len, data) IN
    IF v.site # "ok" THEN StorePanic(v.site, data)
    ELSE LET w == Window(data, v)
             mask == Shr(MAX(U32), U32 - len)
             x == And(val, mask)
         IN CASE Len(w) \in {3, 4} ->
                    Stored(PutWindow(data, v, store_arm(w, off, len, x, U32)))
              [] Len(w) = 5 -> Stored(PutWindow(data, v, store_arm(w, off, len, x, U64)))
              [] OTHER -> StorePanic("unreachable", data)

store_u64(off, len, data, val) ==
    LET v == view_mut(U64, off, len, data) IN
    IF v.site # "ok" THEN StorePanic(v.site, data)
    ELSE LET w == Window(data, v)
             mask == Shr(MAX(U64), U64 - len)
             x == And(val, mask)
         IN CASE Len(w) \in {5, 6, 7, 8} ->
                    Stored(PutWindow(data, v, store_arm(w, off, len, x, U64)))
              [] Len(w) = 9 -> Stored(PutWindow(data, v, store_arm(w, off, len, x, U128)))
              [] OTHER -> StorePanic("unreachable", data)

\* <ty as private::Store>::store
store(ty, off, len, data, val) ==
    CASE ty = U8 -> store_u8(off, len, data, val)
      [] ty = U16 -> store_u16(off, len, data, val)
      [] ty = U32 -> store_u32(off, len, data, val)
      [] ty = U64 -> store_u64(off, len, data, val)

\* ------------------------------------------------------------------------
\* Specifier
\* ------------------------------------------------------------------------

\* The aliases B1..B64: Bn<u8, n> for n <= 8, Bn<u16, n> for n <= 16,
\* Bn<u32, n> for n <= 32, Bn<u64, n> above.  `item` is the width of Type.
Bn(I, N) == [kind |-> "Bn", bits |-> N, item |-> I]
B(n) ==
    Bn(IF n <= 8 THEN U8 ELSE IF n <= 16 THEN U16 ELSE IF n <= 32 THEN U32 ELSE U64, n)

\* impl Specifier for bool: BITS = 1.
bool == [kind |-> "bool", bits |-> 1, item |-> 1]

\* from_uN with Bn converting by a truncating cast (v as Type).
from_uN_truncating(f, r) ==
    IF r.site # "ok" THEN r
    ELSE IF f.kind = "bool" THEN [site |-> "ok", val |-> (Cast(r.val, U8) = {0})]
    ELSE [site |-> "ok", val |-> Cast(r.val, f.item)]

\* from_uN with bool decoded as v == 0.
from_uN_bool_inverted(f, r) ==
    IF r.site # "ok" THEN r
    ELSE IF f.kind = "bool" THEN [site |-> "ok", val |-> (Cast(r.val, U8) = {})]
    ELSE IF r.val \subseteq Bit(f.item) THEN [site |-> "ok", val |-> r.val]
    ELSE [site |-> "convert", val |-> ZERO]

\* from_u8 .. from_u64 of a specifier applied to the result of a load.
\* Bn: Type::try_from(v), a panic ("convert") when v does not fit Type.
\* bool: v == 1 (after v as u8).
from_uN(f, r) ==
    IF r.site # "ok" THEN r
    ELSE IF f.kind = "bool" THEN [site |-> "ok", val |-> (Cast(r.val, U8) = {0})]
    ELSE IF r.val \subseteq Bit(f.item) THEN [site |-> "ok", val |-> r.val]
    ELSE [site |-> "convert", val |-> ZERO]

\* to_u8 .. to_u64 of a specifier: the value as the container type ty.
\* Bn: Type::try_into(v), a panic ("convert") when v does not fit ty.
\* bool: if v { 1 } else { 0 }.
to_uN(f, val, ty) ==
    IF f.kind = "bool" THEN [site |-> "ok", val |-> IF val THEN {0} ELSE {}]
    ELSE IF val \subseteq Bit(ty) THEN [site |-> "ok", val |-> val]
    ELSE [site |-> "convert", val |-> ZERO]

\* The container Specifier::get and Specifier::set match BITS to
\* (0 = none of the arms: unreachable!()).
Container(bits) ==
    IF bits \in 0..8 THEN U8
    ELSE IF bits \in 9..16 THEN U16
    ELSE IF bits \in 17..32 THEN U32
    ELSE IF bits \in 33..64 THEN U64
    ELSE 0

\* Specifier::get
get(f, off, data) ==
    IF Container(f.bits) = 0 THEN [site |-> "unreachable", val |-> ZERO]
    ELSE from_uN(f, load(Container(f.bits), off, f.bits, data))

\* set storing the value cast to the container before converting it.
set_store_before_convert(f, off, data, val) ==
    IF Container(f.bits) = 0 THEN StorePanic("unreachable", data)
    ELSE LET c == to_uN(f, val, Container(f.bits))
             raw == IF f.kind = "bool" THEN c.val ELSE Cast(val, Container(f.bits))
             r == store(Container(f.bits), off, f.bits, data, raw)
         IN IF c.site # "ok" THEN StorePanic(c.site, r.data) ELSE r

\* Specifier::set: the value is converted first, then stored.
set(f, off, data, val) ==
    IF Container(f.bits) = 0 THEN StorePanic("unreachable", data)
    ELSE LET c == to_uN(f, val, Container(f.bits)) IN
         IF c.site # "ok" THEN StorePanic(c.site, data)
         ELSE store(Container(f.bits), off, f.bits, data, c.val)

\* ------------------------------------------------------------------------
\* #[bitfield]: gen_standard and the type check of what it generates
\* ------------------------------------------------------------------------

\* <f1>::BITS + .. + <fn>::BITS of a list of field types.
RECURSIVE SumBits(_)
SumBits(tys) == IF Len(tys) = 0 THEN 0 ELSE tys[1].bits + SumBits(Tail(tys))

\* offsets with the field pushed before its offset is taken.
offsets_inclusive(fields) == [i \in 1..Len(fields) |-> SubSeq(fields, 1, i)]

\* The loop of gen_standard: offsets[i] is the list of the types before field i.
offsets(fields) == [i \in 1..Len(fields) |-> SubSeq(fields, 1, i - 1)]

\* const OFFSET: [usize; len] = [ 0 + <offsets[i]>::BITS .., ]
OFFSET(fields) == [i \in 1..Len(fields) |-> 0 + SumBits(offsets(fields)[i])]

\* The length of `data`: (((BITS + .. + BITS) - 1) >> 3) + 1.
\* With no field the sum is the empty token list and "(() - 1)" has no type
\* (-1); with a sum of 0 the usize subtraction overflows in the constant (-2).
data_len(fields) ==
    IF Len(fields) = 0 THEN -1
    ELSE IF SumBits(fields) - 1 < 0 THEN -2
    ELSE ((SumBits(fields) - 1) \div 8) + 1

\* N of the generated impl TotalSizeModEight<N>: (0 + BITS + ..) % 8.
TotalSizeModEight(fields) == (0 + SumBits(fields)) % 8

\* The generated items type-check: the array length is a usize constant and
\* TotalSizeIsMultipleOfEightBits finds its supertrait TotalSizeModEight<0>.
TypeChecks(fields) == data_len(fields) >= 0 /\ TotalSizeModEight(fields) = 0

\* new() filling data with 0xFF.
new_ones(fields) == [k \in 1..data_len(fields) |-> 255]

\* new(): data: Default::default()
new(fields) == [k \in 1..data_len(fields) |-> 0]

\* ------------------------------------------------------------------------
\* #[derive(BitfieldSpecifier)]
\* ------------------------------------------------------------------------

\* A variant is [ident, discriminant]; a discriminant is absent or an
\* integer literal, held as the number it denotes.
NoDiscriminant == [some |-> FALSE, lit |-> ZERO]
Literal(v) == [some |-> TRUE, lit |-> v]

\* a < b for unsigned integers.
Less(a, b) == \E i \in b \ a : \A j \in a \ b : j < i

\* BitsDetector::visit_lit_int on the literal i with the state
\* [max, errs]: base10_parse::<u64> fails for a literal that is no u64.
visit_lit_int(self_, i) ==
    IF ~(i \subseteq Bit(U64)) THEN [self_ EXCEPT !.errs = self_.errs + 1]
    ELSE IF ~self_.max.some THEN [self_ EXCEPT !.max = Literal(i)]
    ELSE [self_ EXCEPT !.max = Literal(IF Less(self_.max.lit, i) THEN i ELSE self_.max.lit)]

\* BitsDetector(..).visit_data_enum(item): every literal of every variant,
\* in order.
RECURSIVE visit_data_enum(_, _)
visit_data_enum(self_, variants) ==
    IF Len(variants) = 0 THEN self_
    ELSE visit_data_enum(
            IF variants[1].discriminant.some
            THEN visit_lit_int(self_, variants[1].discriminant.lit)
            ELSE self_,
            Tail(variants))

\* while max != 0 { bits += 1; max >>= 1; }
RECURSIVE count_bits(_, _)
count_bits(max, bits) == IF max = ZERO THEN bits ELSE count_bits(Shr(max, 1), bits + 1)

Err(msg) == [ok |-> FALSE, err |-> msg]

\* detectbits ending with Ok(bits).
detectbits_no_min(variants) ==
    LET d == visit_data_enum([max |-> NoDiscriminant, errs |-> 0], variants)
    IN IF d.errs # 0 THEN Err("parse")
       ELSE IF ~d.max.some THEN Err("no literal specified.")
       ELSE [ok |-> TRUE, bits |-> count_bits(d.max.lit, 0)]

\* detectbits
detectbits(variants) ==
    LET d == visit_data_enum([max |-> NoDiscriminant, errs |-> 0], variants)
    IN IF d.errs # 0 THEN Err("parse")
       ELSE IF ~d.max.some THEN Err("no literal specified.")
       ELSE LET bits == count_bits(d.max.lit, 0)
            IN [ok |-> TRUE, bits |-> IF bits > 1 THEN bits ELSE 1]

\* ty_for_bits (0 = Err "unsupported .. bits").
ty_for_bits(b) ==
    IF b \in 0..8 THEN U8
    ELSE IF b \in 9..16 THEN U16
    ELSE IF b \in 17..32 THEN U32
    ELSE IF b \in 33..64 THEN U64
    ELSE 0

\* VariantWrapper::from taking a variant without discriminant as it is.
VariantWrapper_from_any(v) == [ok |-> TRUE]

\* VariantWrapper::from
VariantWrapper_from(v) ==
    IF ~v.discriminant.some THEN Err("needs discriminant") ELSE [ok |-> TRUE]

\* gen without the check of input.generics.
derive_generics_unchecked(input) ==
    IF input.kind # "enum" THEN Err("not supported.")
    ELSE IF \E i \in 1..Len(input.variants) : ~VariantWrapper_from(input.variants[i]).ok
         THEN Err("needs discriminant")
    ELSE LET bits == detectbits(input.variants)
         IN IF ~bits.ok THEN bits
            ELSE IF ty_for_bits(bits.bits) = 0 THEN Err("unsupported bits")
            ELSE [ok |-> TRUE, BITS |-> bits.bits, Item |-> ty_for_bits(bits.bits),
                  arms |-> [i \in 1..Len(input.variants) |->
                              [ident |-> input.variants[i].ident,
                               val |-> input.variants[i].discriminant.lit]]]

\* derive: gen(input), an Err becoming compile_error!.  Ok is the impl
\* written: const BITS, type Item, and the arms (ident, val) of from and to.
derive(input) ==
    IF input.kind # "enum" THEN Err("not supported.")
    ELSE IF input.generics # 0 THEN Err("generics not supported.")
    ELSE IF \E i \in 1..Len(input.variants) : ~VariantWrapper_from(input.variants[i]).ok
         THEN Err("needs discriminant")
    ELSE LET bits == detectbits(input.variants)
         IN IF ~bits.ok THEN bits
            ELSE IF ty_for_bits(bits.bits) = 0 THEN Err("unsupported bits")
            ELSE [ok |-> TRUE, BITS |-> bits.bits, Item |-> ty_for_bits(bits.bits),
                  arms |-> [i \in 1..Len(input.variants) |->
                              [ident |-> input.variants[i].ident,
                               val |-> input.variants[i].discriminant.lit]]]

\* The generated from: match me { Self::ident => val, .. }
enum_from(impl, me) ==
    LET i == CHOOSE k \in 1..Len(impl.arms) :
                /\ impl.arms[k].ident = me
                /\ \A j \in 1..(k - 1) : impl.arms[j].ident # me
    IN impl.arms[i].val

\* The generated to with a last arm `_ => <the first variant>`.
enum_to_default(impl, they) ==
    IF \E k \in 1..Len(impl.arms) : impl.arms[k].val = they
    THEN LET i == CHOOSE k \in 1..Len(impl.arms) :
                    /\ impl.arms[k].val = they
                    /\ \A j \in 1..(k - 1) : impl.arms[j].val # they
         IN [site |-> "ok", variant |-> impl.arms[i].ident]
    ELSE [site |-> "ok", variant |-> impl.arms[1].ident]

\* The generated to: match they { val => Self::ident, .., _ => panic!() }
enum_to(impl, they) ==
    IF \E k \in 1..Len(impl.arms) : impl.arms[k].val = they
    THEN LET i == CHOOSE k \in 1..Len(impl.arms) :
                    /\ impl.arms[k].val = they
                    /\ \A j \in 1..(k - 1) : impl.arms[j].val # they
         IN [site |-> "ok", variant |-> impl.arms[i].ident]
    ELSE [site |-> "panic", variant |-> 0]

\* trait Specifier: the associated constants and types an impl may define,
\* and the signatures of its two required functions.
Specifier ==
    [consts |-> {"BITS"}, types |-> {"Type"},
     from |-> [arg |-> "u64", ret |-> "Self::Type"],
     to |-> [arg |-> "Self::Type", ret |-> "u64"]]

\* The items of the impl the derive writes, whatever the enum.
GeneratedImpl ==
    [consts |-> {"BITS"}, types |-> {"Item", "Type"},
     from |-> [arg |-> "Self::Type", ret |-> "Self::Item"],
     to |-> [arg |-> "Self::Item", ret |-> "Self::Type"]]

\* The compiler's check of an impl of Specifier: every item it defines is a
\* member of the trait, every associated type of the trait is defined, and
\* from and to have the signatures the trait declares.
ImplChecks(items) ==
    /\ items.consts \subseteq Specifier.consts
    /\ items.types = Specifier.types
    /\ items.from = Specifier.from
    /\ items.to = Specifier.to

\* ------------------------------------------------------------------------
\* #[sorted] on an enum (src/sorted/src/imp.rs, sorted_enum)
\* ------------------------------------------------------------------------

\* An identifier is the sequence of the code points of its characters.
\* l.ident.cmp(&r.ident): the order of the strings, character by character,
\* a proper prefix before the longer string.
RECURSIVE ident_cmp(_, _)
ident_cmp(l, r) ==
    IF Len(l) = 0 /\ Len(r) = 0 THEN "Equal"
    ELSE IF Len(l) = 0 THEN "Less"
    ELSE IF Len(r) = 0 THEN "Greater"
    ELSE IF l[1] < r[1] THEN "Less"
    ELSE IF l[1] > r[1] THEN "Greater"
    ELSE ident_cmp(Tail(l), Tail(r))

\* sort_by leaving the variants in declaration order.
sort_by_declared(v) == v

\* Placing x behind the last element that is not greater (the sort is stable).
RECURSIVE insert(_, _)
insert(x, s) ==
    IF Len(s) = 0 THEN << x >>
    ELSE IF ident_cmp(x.ident, s[1].ident) = "Less" THEN << x >> \o s
    ELSE << s[1] >> \o insert(x, Tail(s))

\* sorted.sort_by(|l, r| l.ident.cmp(&r.ident)) on a clone of the variants.
RECURSIVE sort_by(_)
sort_by(v) ==
    IF Len(v) = 0 THEN << >>
    ELSE insert(v[Len(v)], sort_by(SubSeq(v, 1, Len(v) - 1)))

\* ------------------------------------------------------------------------
\* #[derive(Builder)] (src/builder/src/imp.rs) and the code it generates
\* ------------------------------------------------------------------------

\* A field of the struct is [ty, each]: its type T, Option<T> or Vec<T>, and
\* whether it carries #[builder(each = "..")].
\* infer_option: the type is Option<..> with one argument.
infer_option(ty) == ty = "Option"

\* TargetField::from
TargetField_from(field) == [option |-> infer_option(field.ty), each |-> field.each]

\* TargetField::option, ::each and ::standard
option(f) == f.option
each(f) == f.each
standard(f) == ~option(f) /\ ~each(f)

None == [some |-> FALSE]
Some(val) == [some |-> TRUE, val |-> val]

\* The generated builder(): None for every standard and every Option field,
\* Default::default() (the empty Vec) for every each field.
builder(fields) ==
    [i \in 1..Len(fields) |-> IF each(fields[i]) THEN << >> ELSE None]

\* The generated setter of field i: self.f = Some(val) for a standard and an
\* Option field, self.owner.extend([val]) for an each field.
setter(fields, self_, i, val) ==
    IF each(fields[i]) THEN [self_ EXCEPT ![i] = @ \o << val >>]
    ELSE [self_ EXCEPT ![i] = Some(val)]

\* build moving the values out of the builder (take() in place of clone()).
build_taking(fields, self_) ==
    IF \E i \in 1..Len(fields) : standard(fields[i]) /\ self_[i] = None
      THEN [ret |-> None, self |-> self_]
      ELSE [ret |-> Some([i \in 1..Len(fields) |->
                            IF standard(fields[i]) THEN self_[i].val ELSE self_[i]]),
            self |-> builder(fields)]

\* The generated build(&mut self): None at the first standard field that is
\* None; otherwise Some of the struct with the values of the standard
\* fields, and clones of the Option and each fields.  `self` is the builder
\* after the call: every field is read through clone().
build(fields, self_) ==
    IF \E i \in 1..Len(fields) : standard(fields[i]) /\ self_[i] = None
      THEN [ret |-> None, self |-> self_]
      ELSE [ret |-> Some([i \in 1..Len(fields) |->
                            IF standard(fields[i]) THEN self_[i].val ELSE self_[i]]),
            self |-> self_]

\* ------------------------------------------------------------------------
\* State
\* ------------------------------------------------------------------------

VARIABLES
    data,       \* codec harness: the caller's byte buffer
    stored,     \* codec harness: the last call of store, with the buffer before it
    loaded,     \* codec harness: the last call of load, with its result
    decl,       \* the field types of the struct under #[bitfield], in order
    gen,        \* what #[bitfield] generated for it and whether it type-checks
    self,       \* the instance: whether new() ran, and its data
    hist,       \* per field: how often it was set and the value last set
    got,        \* the last getter call and its result
    specifier,  \* accessor harness: the type S of <S as Specifier>::set / ::get
    setcall,    \* accessor harness: the last call of S::set, with the buffer before it
    getcall,    \* accessor harness: the last call of S::get, with its result
    input,      \* derive harness: the item under #[derive(BitfieldSpecifier)]
    derived,    \* derive harness: what the macro returned and whether it compiles
    applied,    \* derive harness: the last evaluation of a generated function
    pair,       \* pair harness: two stores to disjoint fields, applied in both orders
    variants,   \* sorted harness: the identifiers of the enum under #[sorted], as declared
    scan,       \* sorted harness: the position of sorted_enum and what it returned
    target,     \* builder harness: the fields of the struct under #[derive(Builder)]
    the_builder,\* builder harness: the builder instance, once builder() ran
    calls,      \* builder harness: the setter calls made on the instance, in order
    built       \* builder harness: the last call of build() and what it returned

codec_vars == << data, stored, loaded >>
struct_vars == << decl, gen, self, hist, got >>
access_vars == << specifier, setcall, getcall >>
derive_vars == << input, derived, applied >>
pair_vars == << pair >>
sorted_vars == << variants, scan >>
builder_vars == << target, the_builder, calls, built >>
vars == << data, stored, loaded, decl, gen, self, hist, got,
           specifier, setcall, getcall, input, derived, applied,
           pair, variants, scan, target, the_builder, calls, built >>

\* ------------------------------------------------------------------------
\* Bounds of the codec harness
\* ------------------------------------------------------------------------

\* Bit offsets 0..MaxOff: every bit shift 0..7, and windows that start in byte 1,
\* at its bit 0 and inside it.
MaxOff == 9
\* Buffers of 0..MaxBytes bytes: a 9-byte window at byte 1 fits.
MaxBytes == 10
\* Lengths tried outside a container's band: this far below and above it, and 0.
OutOfBand == 1

Offsets == 0..MaxOff

Lengths(ty) ==
    LET lo == CHOOSE n \in BITS_RANGE(ty) : \A m \in BITS_RANGE(ty) : n <= m
    IN {0} \cup {n \in (lo - OutOfBand)..(ty + OutOfBand) : n >= 0}

\* Prior buffer contents: all zero, all ones, and bytes that all differ.
MixedByte(k) == (165 + 59 * (k - 1)) % 256
Buffers ==
    UNION {{[k \in 1..n |-> 0], [k \in 1..n |-> 255], [k \in 1..n |-> MixedByte(k)]} :
            n \in 0..MaxBytes}

\* The 13-bit pattern 0x1675 repeated: a value with no regularity per byte.
MixedBit(i) == << 1, 0, 1, 0, 1, 1, 1, 0, 0, 1, 1, 0, 1 >>[((i - 1) % 13) + 1]
MixedVal(ty) == {i \in Bit(ty) : MixedBit(i + 1) = 1}
LowOnes(ty, len) == {i \in Bit(ty) : i < len}

\* Values stored: 0, Self::MAX (wider than len bits unless len is the whole
\* container), and the low len bits of the pattern.
Values(ty, len) ==
    {ZERO, MAX(ty), And(MixedVal(ty), LowOnes(ty, len))}

NoStore ==
    [done |-> FALSE, ty |-> U8, off |-> 0, len |-> 0, val |-> ZERO,
     site |-> "ok", prior |-> << >>]
NoLoad ==
    [done |-> FALSE, ty |-> U8, off |-> 0, len |-> 0, site |-> "ok", val |-> ZERO]

\* ------------------------------------------------------------------------
\* Inputs of the struct harness
\* ------------------------------------------------------------------------

\* Calls of one setter on one instance.
MaxSetsPerField == 2

\* The struct declarations: no field, every single field bool, B1..B64, and
\* structs of two and three fields that put fields of every container at
\* offsets inside a byte, across bytes and up to a byte boundary.
Structs ==
    {<< >>, << bool >>} \cup {<< B(n) >> : n \in 1..64} \cup
    { << B(3), B(4) >>, << B(9), B(6) >>, << bool, B(7) >>, << B(8), B(8) >>,
      << B(3), B(13) >>, << B(7), B(17) >>, << B(31), B(33) >>,
      << B(3), B(4), B(1) >>, << B(3), bool, B(4) >>, << B(15), B(13), B(4) >>,
      << B(4), B(32), B(4) >>, << B(5), B(33), B(2) >>, << B(1), B(64), B(7) >> }

\* The pattern 0b1001 repeated.
NineVal(ty) == {i \in Bit(ty) : i % 4 \in {0, 3}}

\* Values passed to the setter of a field: 0, Type::MAX, and two values of
\* BITS bits (for a:3, b:4, c:1 they include a = 5, b = 9, c = 1).
FieldValues(f) ==
    IF f.kind = "bool" THEN {TRUE, FALSE}
    ELSE {ZERO, MAX(f.item), And(MixedVal(f.item), LowOnes(f.item, f.bits)),
          And(NineVal(f.item), LowOnes(f.item, f.bits))}

NotExpanded == [state |-> "declared", OFFSET |-> << >>, size |-> 0]
NoInstance == [live |-> FALSE, data |-> << >>]
NoGet == [done |-> FALSE, field |-> 0, site |-> "ok", val |-> ZERO]
NeverSet(f) == [n |-> 0, site |-> "ok", val |-> IF f.kind = "bool" THEN FALSE ELSE ZERO]

\* ------------------------------------------------------------------------
\* Inputs of the accessor harness
\* ------------------------------------------------------------------------

\* The types S: bool, the aliases B1..B64, and Bn<I, N> that no alias names:
\* a value type narrower than N bits, value types wider than the container
\* of N, and N = 0 and N = 65, which const N: usize allows.
Specifiers ==
    {bool} \cup {B(n) : n \in 1..64} \cup
    { Bn(U8, 9), Bn(U8, 12), Bn(U16, 20), Bn(U32, 40), Bn(U16, 8), Bn(U8, 0), Bn(U64, 65),
      Bn(U64, 3), Bn(U32, 5), Bn(U64, 12), Bn(U64, 20) }

\* Values passed to S::set: those of FieldValues and, for a value type wider
\* than the container of BITS, one that fits the container and is not
\* below 2^BITS (0x75 for Bn<u64, 3>, 0xB675 for Bn<u64, 12>).
SetValues(S) ==
    FieldValues(S) \cup
    (IF S.kind = "Bn" /\ Container(S.bits) # 0 /\ S.item > Container(S.bits)
       THEN {And(MixedVal(S.item), LowOnes(S.item, Container(S.bits)))}
       ELSE {})

\* Buffers of the accessor harness: empty, two bytes, and MaxBytes bytes.
AccessBuffers == {b \in Buffers : Len(b) \in {0, 2, MaxBytes}}

NoSet == [done |-> FALSE, off |-> 0, val |-> ZERO, site |-> "ok", prior |-> << >>]
NoGetCall == [done |-> FALSE, off |-> 0, site |-> "ok", val |-> ZERO]

\* ------------------------------------------------------------------------
\* Inputs of the derive harness
\* ------------------------------------------------------------------------

\* Variants declared without discriminant: up to this many.
MaxVariants == 5

\* The variants with the discriminants ds, named 1, 2, .. in order.
Variants(ds) == [i \in 1..Len(ds) |-> [ident |-> i, discriminant |-> ds[i]]]
DeriveInput(kind, generics, ds) == [kind |-> kind, generics |-> generics, variants |-> Variants(ds)]

\* The literal that denotes n < 256.
Lit(n) == Literal(ByteBits(n))

\* Lists of distinct literal discriminants (an enum has no two equal ones):
\* {0, 1, 5} in both orders, single ones, consecutive ones, a maximum of
\* 2^k for every k < 64, of 2^k - 1 for every k <= 64, and a literal that
\* is no u64.
LiteralLists ==
    { << Lit(0), Lit(1), Lit(5) >>, << Lit(5), Lit(1), Lit(0) >>, << Lit(0) >>, << Lit(1) >>,
      << Lit(0), Lit(1) >>, << Lit(0), Lit(1), Lit(2), Lit(3) >>, << Lit(3), Lit(200) >>,
      << Lit(7), Literal({64}) >> }
    \cup {<< Lit(0), Literal({k}) >> : k \in Bit(U64)}
    \cup {<< Literal(LowOnes(U64, k)), Lit(0) >> : k \in 2..U64}

\* Lists with a variant that has no discriminant: none has one, or some.
BareLists ==
    {[i \in 1..n |-> NoDiscriminant] : n \in 1..MaxVariants}
    \cup { << Lit(0), NoDiscriminant >>, << NoDiscriminant, Lit(5) >> }

\* The items under #[derive(BitfieldSpecifier)]: enums, generic enums, the
\* enum of no variant, a struct and a union.
DeriveInputs ==
    {DeriveInput("enum", 0, ds) : ds \in LiteralLists \cup BareLists \cup {<< >>}}
    \cup {DeriveInput("enum", 1, ds) : ds \in {<< Lit(0), Lit(1) >>, << NoDiscriminant, NoDiscriminant >>}}
    \cup {DeriveInput("struct", 0, << >>), DeriveInput("union", 0, << >>),
            DeriveInput("struct", 1, << >>)}

\* Raw values given to the generated to: 0..8, the discriminants, and
\* the largest value of Item.
Raws(impl) ==
    {ByteBits(n) : n \in 0..8} \cup {impl.arms[k].val : k \in 1..Len(impl.arms)}
        \cup {MAX(impl.Item)}

NoInput == [kind |-> "none", generics |-> 0, variants |-> << >>]
NotDerived == [state |-> "none"]
NotApplied == [fn |-> "none", variant |-> 0, raw |-> ZERO, site |-> "ok", out |-> 0]

\* ------------------------------------------------------------------------
\* The pair, sorted and builder harnesses before anything ran
\* ------------------------------------------------------------------------

NoCall == [ty |-> U8, off |-> 0, len |-> 0, val |-> ZERO]
NoPair == [done |-> 0, a |-> NoCall, b |-> NoCall, ab |-> << >>, ba |-> << >>]
NotScanned == [state |-> "none", sorted |-> << >>, pos |-> 0, msg |-> << >>]
NoBuilder == [live |-> FALSE, fields |-> << >>]
NotBuilt == [done |-> FALSE, seen |-> 0, ret |-> None]

\* ------------------------------------------------------------------------
\* Codec harness: one store on a buffer with arbitrary prior content, then a
\* load of the field just written; or a load straight from the prior content.
\* ------------------------------------------------------------------------

InitCodec ==
    /\ data \in Buffers
    /\ stored = NoStore
    /\ loaded = NoLoad
    /\ decl = << >>
    /\ gen = NotExpanded
    /\ self = NoInstance
    /\ hist = << >>
    /\ got = NoGet
    /\ specifier = bool
    /\ setcall = NoSet
    /\ getcall = NoGetCall
    /\ input = NoInput
    /\ derived = NotDerived
    /\ applied = NotApplied
    /\ pair = NoPair
    /\ variants = << >>
    /\ scan = NotScanned
    /\ target = << >>
    /\ the_builder = NoBuilder
    /\ calls = << >>
    /\ built = NotBuilt

CallStore(ty) ==
    /\ ~stored.done
    /\ ~loaded.done
    /\ \E off \in Offsets, len \in Lengths(ty) :
         \E val \in Values(ty, len) :
            \E r \in {store(ty, off, len, data, val)} :
            /\ data' = r.data
            /\ stored' = [done |-> TRUE, ty |-> ty, off |-> off, len |-> len,
                          val |-> val, site |-> r.site, prior |-> data]
    /\ UNCHANGED << loaded, struct_vars, access_vars, derive_vars, pair_vars, sorted_vars, builder_vars >>

CallLoad(ty) ==
    /\ ~loaded.done
    /\ \E off \in Offsets, len \in Lengths(ty) :
         /\ stored.done => (ty = stored.ty /\ off = stored.off /\ len = stored.len)
         /\ \E r \in {load(ty, off, len, data)} :
            loaded' = [done |-> TRUE, ty |-> ty, off |-> off, len |-> len,
                       site |-> r.site, val |-> r.val]
    /\ UNCHANGED << data, stored, struct_vars, access_vars, derive_vars, pair_vars, sorted_vars, builder_vars >>

StoreU8 == CallStore(U8)
StoreU16 == CallStore(U16)
StoreU32 == CallStore(U32)
StoreU64 == CallStore(U64)
LoadU8 == CallLoad(U8)
LoadU16 == CallLoad(U16)
LoadU32 == CallLoad(U32)
LoadU64 == CallLoad(U64)

NextCodec ==
    \/ StoreU8
    \/ StoreU16
    \/ StoreU32
    \/ StoreU64
    \/ LoadU8
    \/ LoadU16
    \/ LoadU32
    \/ LoadU64

SpecCodec == InitCodec /\ [][NextCodec]_vars
\* ------------------------------------------------------------------------
\* Struct harness: a struct declaration is expanded by #[bitfield] and
\* type-checked; an accepted type is instantiated with new() and its
\* setters and getters are called in any order.  The declarations are
\* structs with named fields and no generic parameters (the only items
\* gen_standard generates anything for).
\* ------------------------------------------------------------------------

InitStruct ==
    /\ data = << >>
    /\ stored = NoStore
    /\ loaded = NoLoad
    /\ decl \in Structs
    /\ gen = NotExpanded
    /\ self = NoInstance
    /\ hist = [i \in 1..Len(decl) |-> NeverSet(decl[i])]
    /\ got = NoGet
    /\ specifier = bool
    /\ setcall = NoSet
    /\ getcall = NoGetCall
    /\ input = NoInput
    /\ derived = NotDerived
    /\ applied = NotApplied
    /\ pair = NoPair
    /\ variants = << >>
    /\ scan = NotScanned
    /\ target = << >>
    /\ the_builder = NoBuilder
    /\ calls = << >>
    /\ built = NotBuilt

\* The macro expands the declaration and the compiler checks the result.
Bitfield ==
    /\ gen.state = "declared"
    /\ gen' = [state |-> IF TypeChecks(decl) THEN "accepted" ELSE "rejected",
               OFFSET |-> OFFSET(decl),
               size |-> data_len(decl)]
    /\ UNCHANGED << codec_vars, access_vars, derive_vars, pair_vars, sorted_vars, builder_vars, decl, self, hist, got >>

\* T::new(), possible only for a type that compiled.
New ==
    /\ gen.state = "accepted"
    /\ ~self.live
    /\ self' = [live |-> TRUE, data |-> new(decl)]
    /\ UNCHANGED << codec_vars, access_vars, derive_vars, pair_vars, sorted_vars, builder_vars, decl, gen, hist, got >>

\* self.set_<field i>(val)
SetField ==
    /\ self.live
    /\ \E i \in 1..Len(decl) :
         /\ hist[i].n < MaxSetsPerField
         /\ \E val \in FieldValues(decl[i]) :
              \E r \in {set(decl[i], gen.OFFSET[i], self.data, val)} :
                 /\ self' = [self EXCEPT !.data = r.data]
                 /\ hist' = [hist EXCEPT ![i] =
                        IF r.site = "ok"
                        THEN [n |-> hist[i].n + 1, site |-> "ok", val |-> val]
                        ELSE [hist[i] EXCEPT !.site = r.site]]
    /\ got' = NoGet
    /\ UNCHANGED << codec_vars, access_vars, derive_vars, pair_vars, sorted_vars, builder_vars, decl, gen >>

\* self.get_<field i>()
GetField ==
    /\ self.live
    /\ \E i \in 1..Len(decl) :
         \E r \in {get(decl[i], gen.OFFSET[i], self.data)} :
            got' = [done |-> TRUE, field |-> i, site |-> r.site, val |-> r.val]
    /\ UNCHANGED << codec_vars, access_vars, derive_vars, pair_vars, sorted_vars, builder_vars, decl, gen, self, hist >>

NextStruct ==
    \/ Bitfield
    \/ New
    \/ SetField
    \/ GetField

SpecStruct == InitStruct /\ [][NextStruct]_vars

\* ------------------------------------------------------------------------
\* Struct harness over declarations whose fields are Bn<I, N> of any N that
\* const N: usize allows, among them N = 0 and N > 64.
\* ------------------------------------------------------------------------

WidthStructs ==
    { << Bn(U8, 0) >>, << Bn(U8, 0), B(8) >>, << B(8), Bn(U8, 0) >>,
      << Bn(U64, 65), B(7) >>, << B(7), Bn(U64, 65) >>, << Bn(U64, 72) >>,
      << Bn(U64, 64) >>, << B(1), B(7) >>, << Bn(U8, 0), Bn(U64, 65), B(7) >> }

InitWidth ==
    /\ data = << >>
    /\ stored = NoStore
    /\ loaded = NoLoad
    /\ decl \in WidthStructs
    /\ gen = NotExpanded
    /\ self = NoInstance
    /\ hist = [i \in 1..Len(decl) |-> NeverSet(decl[i])]
    /\ got = NoGet
    /\ specifier = bool
    /\ setcall = NoSet
    /\ getcall = NoGetCall
    /\ input = NoInput
    /\ derived = NotDerived
    /\ applied = NotApplied
    /\ pair = NoPair
    /\ variants = << >>
    /\ scan = NotScanned
    /\ target = << >>
    /\ the_builder = NoBuilder
    /\ calls = << >>
    /\ built = NotBuilt

SpecWidth == InitWidth /\ [][NextStruct]_vars

\* ------------------------------------------------------------------------
\* Derive harness: the macro expands an item, the compiler checks the impl
\* it wrote against trait Specifier, and the functions of the impl are
\* evaluated as written: from on a variant, to on a raw value or on what
\* from returned.
\* ------------------------------------------------------------------------

InitDerive ==
    /\ data = << >>
    /\ stored = NoStore
    /\ loaded = NoLoad
    /\ decl = << >>
    /\ gen = NotExpanded
    /\ self = NoInstance
    /\ hist = << >>
    /\ got = NoGet
    /\ specifier = bool
    /\ setcall = NoSet
    /\ getcall = NoGetCall
    /\ input \in DeriveInputs
    /\ derived = NotDerived
    /\ applied = NotApplied
    /\ pair = NoPair
    /\ variants = << >>
    /\ scan = NotScanned
    /\ target = << >>
    /\ the_builder = NoBuilder
    /\ calls = << >>
    /\ built = NotBuilt

\* #[derive(BitfieldSpecifier)] on the item.
Derive ==
    /\ derived.state = "none"
    /\ \E r \in {derive(input)} :
         derived' = IF r.ok THEN [state |-> "expanded", impl |-> r]
                    ELSE [state |-> "error", err |-> r.err]
    /\ UNCHANGED << codec_vars, struct_vars, access_vars, pair_vars, sorted_vars, builder_vars, input, applied >>

\* The compiler checks the impl the macro wrote.
Compile ==
    /\ derived.state = "expanded"
    /\ derived' = [derived EXCEPT
                     !.state = IF ImplChecks(GeneratedImpl) THEN "compiled" ELSE "rejected"]
    /\ UNCHANGED << codec_vars, struct_vars, access_vars, pair_vars, sorted_vars, builder_vars, input, applied >>

Expanded == derived.state \in {"expanded", "compiled", "rejected"}

\* from(me) of the impl, for a variant of the enum.
From ==
    /\ Expanded
    /\ applied.fn = "none"
    /\ \E i \in 1..Len(input.variants) :
         applied' = [fn |-> "from", variant |-> input.variants[i].ident,
                     raw |-> enum_from(derived.impl, input.variants[i].ident),
                     site |-> "ok", out |-> 0]
    /\ UNCHANGED << codec_vars, struct_vars, access_vars, pair_vars, sorted_vars, builder_vars, input, derived >>

\* to(they) of the impl, for a raw value or for what from returned.
To ==
    /\ Expanded
    /\ applied.fn \in {"none", "from"}
    /\ \E they \in Raws(derived.impl) :
         /\ applied.fn = "from" => they = applied.raw
         /\ \E r \in {enum_to(derived.impl, they)} :
              applied' = [fn |-> "to", variant |-> applied.variant, raw |-> they,
                          site |-> r.site, out |-> r.variant]
    /\ UNCHANGED << codec_vars, struct_vars, access_vars, pair_vars, sorted_vars, builder_vars, input, derived >>

NextDerive ==
    \/ Derive
    \/ Compile
    \/ From
    \/ To

SpecDerive == InitDerive /\ [][NextDerive]_vars

\* ------------------------------------------------------------------------
\* Accessor harness: one call on a buffer with arbitrary prior content,
\* either <S as Specifier>::set(off, data, val), then S::get at the same
\* offset, or S::get straight from the prior content, or one store of a
\* codec.  set and get are public functions of the trait; store is called
\* inside the crate (its tests call it with buffers of their own).
\* ------------------------------------------------------------------------

InitAccess ==
    /\ data \in AccessBuffers
    /\ stored = NoStore
    /\ loaded = NoLoad
    /\ decl = << >>
    /\ gen = NotExpanded
    /\ self = NoInstance
    /\ hist = << >>
    /\ got = NoGet
    /\ specifier = bool
    /\ setcall = NoSet
    /\ getcall = NoGetCall
    /\ input = NoInput
    /\ derived = NotDerived
    /\ applied = NotApplied
    /\ pair = NoPair
    /\ variants = << >>
    /\ scan = NotScanned
    /\ target = << >>
    /\ the_builder = NoBuilder
    /\ calls = << >>
    /\ built = NotBuilt

\* S::set(off, &mut data, val)
CallSet ==
    /\ ~setcall.done
    /\ ~getcall.done
    /\ ~stored.done
    /\ \E S \in Specifiers, off \in Offsets :
         \E val \in SetValues(S) :
            \E r \in {set(S, off, data, val)} :
               /\ specifier' = S
               /\ data' = r.data
               /\ setcall' = [done |-> TRUE, off |-> off, val |-> val,
                              site |-> r.site, prior |-> data]
    /\ UNCHANGED << stored, loaded, struct_vars, getcall, derive_vars, pair_vars, sorted_vars, builder_vars >>

\* S::get(off, &data)
CallGet ==
    /\ ~getcall.done
    /\ ~stored.done
    /\ \E S \in Specifiers, off \in Offsets :
         /\ setcall.done => (S = specifier /\ off = setcall.off)
         /\ \E r \in {get(S, off, data)} :
            /\ specifier' = S
            /\ getcall' = [done |-> TRUE, off |-> off, site |-> r.site, val |-> r.val]
    /\ UNCHANGED << codec_vars, struct_vars, setcall, derive_vars, pair_vars, sorted_vars, builder_vars >>

\* <ty as Store>::store(off, len, &mut data, val), as the only call.
AccessStore(ty) ==
    /\ ~setcall.done
    /\ ~getcall.done
    /\ CallStore(ty)

AccessStoreU8 == AccessStore(U8)
AccessStoreU16 == AccessStore(U16)
AccessStoreU32 == AccessStore(U32)
AccessStoreU64 == AccessStore(U64)

NextAccess ==
    \/ CallSet
    \/ CallGet
    \/ AccessStoreU8
    \/ AccessStoreU16
    \/ AccessStoreU32
    \/ AccessStoreU64

SpecAccess == InitAccess /\ [][NextAccess]_vars

\* ------------------------------------------------------------------------
\* Properties of the codec
\* ------------------------------------------------------------------------

\* Bit j of a buffer read as one little-endian integer: bit j % 8 of byte j / 8.
BufBit(d, j) == (j \div 8) < Len(d) /\ (j % 8) \in ByteBits(d[(j \div 8) + 1])

\* The bands of lengths of the four codecs, as the specification states them.
Band(ty) ==
    CASE ty = 8 -> 1..8
      [] ty = 16 -> 9..16
      [] ty = 32 -> 17..32
      [] ty = 64 -> 33..64

\* The last byte index of the window of a call.
EndByte(c) == (c.off + c.len - 1) \div 8

\* C1: round trip.  For every offset, every width w in the band of the
\* container, every value v < 2^w and every prior content of the buffer, a
\* successful store(o, w, buf, v) followed by load(o, w, buf) returns v.
C1_RoundTrip ==
    (stored.done /\ stored.site = "ok" /\ loaded.done /\ stored.val \subseteq Bit(stored.len))
        => (loaded.site = "ok" /\ loaded.val = stored.val)

\* C2: non-interference.  A successful store(o, w, buf, v) leaves the length
\* of the buffer and every bit outside [o, o + w) as they were: the unused
\* bits of the first and last byte of the window and every other byte.
C2_NonInterference ==
    (stored.done /\ stored.site = "ok") =>
        /\ Len(data) = Len(stored.prior)
        /\ \A j \in 0..(8 * Len(data) - 1) :
              (j < stored.off \/ j >= stored.off + stored.len)
                  => (BufBit(data, j) <=> BufBit(stored.prior, j))

\* A store into the middle of a buffer of mixed bytes: the field starts and
\* ends inside a byte, spans several bytes, has bytes before and after it.
C2_Witness ==
    /\ stored.done /\ stored.site = "ok"
    /\ data # stored.prior
    /\ stored.off % 8 # 0 /\ (stored.off + stored.len) % 8 # 0
    /\ stored.off \div 8 >= 1
    /\ EndByte(stored) > stored.off \div 8
    /\ Len(stored.prior) > EndByte(stored) + 1
    /\ \A k \in 1..Len(stored.prior) : stored.prior[k] \notin {0, 255}

\* C4: load(o, w, buf) is floor(N / 2^o) mod 2^w for N the buffer read as a
\* little-endian integer: bit i of the result is bit o + i of the buffer for
\* i < w and 0 for i >= w, for every container and every window size.
C4_LoadValue ==
    (loaded.done /\ loaded.site = "ok") =>
        \A i \in Bit(loaded.ty) :
            (i \in loaded.val) <=> (i < loaded.len /\ BufBit(data, loaded.off + i))

\* A load whose window is one byte longer than the container, from mixed bytes.
C4_Witness ==
    /\ loaded.done /\ loaded.site = "ok" /\ ~stored.done
    /\ EndByte(loaded) - (loaded.off \div 8) + 1 = (loaded.ty \div 8) + 1
    /\ loaded.val # {}
    /\ loaded.val # Bit(loaded.len)

\* C9: for a length inside the band of the container, load and store fail if
\* and only if the buffer is empty or (offset + length - 1) / 8 is greater
\* than the last valid byte index.
C9_OutOfBounds ==
    /\ (stored.done /\ stored.len \in Band(stored.ty)) =>
          ((stored.site # "ok") <=>
              (Len(stored.prior) = 0 \/ EndByte(stored) > Len(stored.prior) - 1))
    /\ (loaded.done /\ loaded.len \in Band(loaded.ty)) =>
          ((loaded.site # "ok") <=> (Len(data) = 0 \/ EndByte(loaded) > Len(data) - 1))

\* A store that fails on a buffer one byte too short for its window.
C9_Witness ==
    /\ stored.done /\ stored.len \in Band(stored.ty)
    /\ stored.site = "bounds"
    /\ Len(stored.prior) > 0
    /\ EndByte(stored) = Len(stored.prior)

\* C10: each codec accepts a length only inside its own band: load or store
\* with a length outside it fails at the width check, however large the
\* buffer, and a length inside it never fails there.
C10_InvalidWidth ==
    /\ stored.done => ((stored.site = "range") <=> (stored.len \notin Band(stored.ty)))
    /\ loaded.done => ((loaded.site = "range") <=> (loaded.len \notin Band(loaded.ty)))

\* The 16-bit codec refuses length 8 on a buffer that holds the 8 bits.
C10_Witness ==
    /\ stored.done /\ stored.ty = 16 /\ stored.len = 8
    /\ stored.site = "range"
    /\ 8 * Len(stored.prior) >= stored.off + stored.len
\* ------------------------------------------------------------------------
\* Properties of the generated struct
\* ------------------------------------------------------------------------

\* w1 + .. + wk, the widths of the first k declared fields.
RECURSIVE SumWidths(_)
SumWidths(k) == IF k = 0 THEN 0 ELSE SumWidths(k - 1) + decl[k].bits

TotalBits == SumWidths(Len(decl))

\* The raw integer a field value stands for: false = 0, true = 1.
Raw(f, val) == IF f.kind = "bool" THEN (IF val THEN {0} ELSE {}) ELSE val

AllSet(n) == \A i \in 1..Len(decl) : hist[i].n = n

C5_Contiguity ==
    (gen.state # "declared" /\ Len(decl) >= 1) =>
        /\ Len(gen.OFFSET) = Len(decl)
        /\ gen.OFFSET[1] = 0
        /\ \A i \in 1..Len(decl) : gen.OFFSET[i] = SumWidths(i - 1)
        /\ \A i \in 1..(Len(decl) - 1) :
              /\ gen.OFFSET[i] < gen.OFFSET[i + 1]
              /\ gen.OFFSET[i] + decl[i].bits = gen.OFFSET[i + 1]
        /\ gen.OFFSET[Len(decl)] + decl[Len(decl)].bits = TotalBits
        /\ gen.size = (TotalBits + 7) \div 8

\* An expanded struct of three fields whose last field starts beyond byte 1.
C5_Witness ==
    /\ gen.state # "declared"
    /\ Len(decl) = 3
    /\ gen.OFFSET[3] > 16
    /\ gen.size > 3

C8_LayoutValidation ==
    /\ gen.state # "declared" => ((gen.state = "accepted") <=> (TotalBits % 8 = 0))
    /\ self.live => (gen.state = "accepted" /\ TotalBits % 8 = 0)

\* ------------------------------------------------------------------------
\* Properties of the accessors
\* ------------------------------------------------------------------------

\* C11: validation precedes mutation.  Whenever store or set fails (a width
\* outside the band, a window outside the buffer, a value that does not
\* convert), the buffer is byte for byte what it was before the call.
C11_ValidationFirst ==
    /\ (stored.done /\ stored.site # "ok") => data = stored.prior
    /\ (setcall.done /\ setcall.site # "ok") => data = setcall.prior

\* A set whose value does not convert to the container, on a buffer of mixed
\* bytes that holds the whole field.
C11_Witness ==
    /\ setcall.done /\ setcall.site = "convert"
    /\ 8 * Len(setcall.prior) >= setcall.off + specifier.bits
    /\ \A k \in 1..Len(setcall.prior) : setcall.prior[k] \notin {0, 255}

\* C16: the boolean specifier.  bool has BITS = 1; get returns true exactly
\* when the bit at the offset is 1 (decode(1) = true, decode(0) = false);
\* set writes 1 for true and 0 for false into that one bit and leaves every
\* other bit; get after set returns the boolean set; this at any bit offset
\* inside the buffer.
C16_Bool ==
    specifier = bool =>
        /\ specifier.bits = 1
        /\ getcall.done =>
              /\ (getcall.site = "ok") <=> (getcall.off < 8 * Len(data))
              /\ getcall.site = "ok" => (getcall.val <=> BufBit(data, getcall.off))
        /\ setcall.done =>
              /\ (setcall.site = "ok") <=> (setcall.off < 8 * Len(setcall.prior))
              /\ Len(data) = Len(setcall.prior)
              /\ \A j \in 0..(8 * Len(data) - 1) :
                    BufBit(data, j) <=>
                        IF j = setcall.off /\ setcall.site = "ok" THEN setcall.val
                        ELSE BufBit(setcall.prior, j)
        /\ (setcall.done /\ setcall.site = "ok" /\ getcall.done) =>
              (getcall.site = "ok" /\ getcall.val = setcall.val)

\* true set at bit 1 of byte 1 of mixed bytes, where a 0 was, and read back.
C16_Witness ==
    /\ specifier = bool
    /\ setcall.done /\ setcall.site = "ok" /\ setcall.val = TRUE
    /\ setcall.off = 9
    /\ ~BufBit(setcall.prior, 9)
    /\ \A k \in 1..Len(setcall.prior) : setcall.prior[k] \notin {0, 255}
    /\ getcall.done /\ getcall.val = TRUE

\* The BITS bits of a buffer at an offset, as an integer.
RawField(d, off, bits) == {i \in 0..(bits - 1) : BufBit(d, off + i)}

\* The window of BITS bits at the offset lies inside the buffer.
InBuffer(d, off, bits) == Len(d) > 0 /\ (off + bits - 1) \div 8 <= Len(d) - 1

\* C17: conversion overflow.  For Bn<I, N>, get fails at the conversion
\* exactly when the N bits loaded are not a value of I (which needs I
\* narrower than N), and returns the loaded value unchanged otherwise; get
\* of an alias B1..B64 never fails at the conversion.
C17_ConversionOverflow ==
    (getcall.done /\ specifier.kind = "Bn") =>
        LET raw == RawField(data, getcall.off, specifier.bits)
            loads == specifier.bits \in 1..64
                        /\ InBuffer(data, getcall.off, specifier.bits)
        IN /\ (getcall.site = "convert") <=> (loads /\ ~(raw \subseteq Bit(specifier.item)))
           /\ (getcall.site = "ok") <=> (loads /\ raw \subseteq Bit(specifier.item))
           /\ getcall.site = "ok" => getcall.val = raw
           /\ getcall.site = "convert" => specifier.item < specifier.bits
           /\ (specifier.bits \in 1..64 /\ specifier = B(specifier.bits))
                 => getcall.site # "convert"

\* Bn<u8, 12>::get from twelve bits of mixed bytes that are no u8.
C17_Witness ==
    /\ getcall.done /\ ~setcall.done
    /\ specifier = Bn(U8, 12)
    /\ getcall.site = "convert"
    /\ \A k \in 1..Len(data) : data[k] \notin {0, 255}

\* C20: container boundary.  get and set pass BITS to the codec whose band
\* holds it (1..8 the 8-bit codec, 9..16 the 16-bit, 17..32 the 32-bit,
\* 33..64 the 64-bit), so for BITS in 1..64 no accessor fails at the width
\* check; and a field of width 8 and a field of width 9 both round-trip at
\* every bit offset: get after a successful set of v < 2^BITS returns v.
C20_ContainerBoundary ==
    specifier.bits \in 1..64 =>
        /\ specifier.bits \in Band(Container(specifier.bits))
        /\ setcall.done => setcall.site \notin {"range", "unreachable"}
        /\ getcall.done => getcall.site \notin {"range", "unreachable"}
        /\ (specifier \in {B(8), B(9)} /\ setcall.done /\ setcall.site = "ok"
               /\ setcall.val \subseteq Bit(specifier.bits) /\ getcall.done)
              => (getcall.site = "ok" /\ getcall.val = setcall.val)

PlainEnum == input.kind = "enum" /\ input.generics = 0

\* No variant of the item has a discriminant (and there is a variant).
Bare ==
    /\ Len(input.variants) >= 1
    /\ \A i \in 1..Len(input.variants) : ~input.variants[i].discriminant.some

\* Every variant has a literal discriminant that is a u64 (and there is one).
AllLiteral ==
    /\ Len(input.variants) >= 1
    /\ \A i \in 1..Len(input.variants) :
          /\ input.variants[i].discriminant.some
          /\ input.variants[i].discriminant.lit \subseteq Bit(U64)

\* n = 2^k for some k.
IsPowerOfTwo(n) == \E k \in 0..n : 2^k = n
Log2(n) == CHOOSE k \in 0..n : 2^k = n

BitLength(x) == IF x = {} THEN 0 ELSE (CHOOSE i \in x : \A j \in x : j <= i) + 1

\* C13: for an enum whose variants all carry a literal discriminant, derive
\* succeeds and BITS is the bit length of the largest discriminant, at
\* least 1 ({0, 1, 5}: 3; 0 alone: 1; a largest of 2^k: k + 1), for every
\* largest discriminant of up to 64 bits; Item is the container of BITS.
C13_DiscriminantWidth ==
    (PlainEnum /\ AllLiteral /\ derived.state # "none") =>
        /\ Expanded
        /\ derived.impl.BITS \in 1..U64
        /\ \A i \in 1..Len(input.variants) :
              BitLength(input.variants[i].discriminant.lit) <= derived.impl.BITS
        /\ \/ \E i \in 1..Len(input.variants) :
                 BitLength(input.variants[i].discriminant.lit) = derived.impl.BITS
           \/ /\ derived.impl.BITS = 1
              /\ \A i \in 1..Len(input.variants) : input.variants[i].discriminant.lit = {}
        /\ derived.impl.BITS \in Band(derived.impl.Item)

\* The enum with the single discriminant 0, expanded: BITS = 1.
C13_Witness ==
    /\ PlainEnum
    /\ input.variants = Variants(<< Lit(0) >>)
    /\ Expanded
    /\ derived.impl.BITS = 1

\* The literal discriminant of the variant named id.
DiscriminantOf(id) ==
    LET i == CHOOSE k \in 1..Len(input.variants) : input.variants[k].ident = id
    IN input.variants[i].discriminant.lit

\* C14: enum round trip.  For an enum with distinct literal discriminants
\* the derive yields a Specifier the enum can be a field with; from of a
\* variant is its literal discriminant, to of that is the variant again,
\* so a field set to a variant is got back as that variant.
C14_EnumRoundTrip ==
    (PlainEnum /\ AllLiteral) =>
        /\ derived.state \notin {"error", "rejected"}
        /\ applied.fn = "from" => applied.raw = DiscriminantOf(applied.variant)
        /\ (applied.fn = "to" /\ applied.variant # 0) =>
              (applied.site = "ok" /\ applied.out = applied.variant)

\* C15: unknown discriminant.  to of a raw value that is the discriminant
\* of no variant fails (3 for {0, 1, 5}) and never yields a variant; to of
\* a discriminant does not fail and yields the variant that has it.
C15_UnknownDiscriminant ==
    applied.fn = "to" =>
        LET known == \E i \in 1..Len(input.variants) :
                        input.variants[i].discriminant.lit = applied.raw
        IN /\ (applied.site = "panic") <=> ~known
           /\ (applied.site = "ok") <=> known
           /\ applied.site = "panic" => applied.out = 0
           /\ applied.site = "ok" => DiscriminantOf(applied.out) = applied.raw

\* to(3) of the enum with the discriminants 0, 1, 5.
C15_Witness ==
    /\ input.variants = Variants(<< Lit(0), Lit(1), Lit(5) >>)
    /\ applied.fn = "to" /\ applied.variant = 0
    /\ applied.raw = ByteBits(3)
    /\ applied.raw \subseteq Bit(derived.impl.BITS)
    /\ applied.site = "panic"

\* C18: the derive rejects, when the type is defined, every item that is not
\* an enum without generic parameters whose variants all have a
\* discriminant: a generic enum, a struct or union, an enum with a variant
\* without discriminant.  It writes an error and no impl of Specifier.
C18_DeriveRejects ==
    (derived.state # "none"
        /\ \/ input.kind # "enum"
           \/ input.generics # 0
           \/ \E i \in 1..Len(input.variants) : ~input.variants[i].discriminant.some)
      => (derived.state = "error" /\ DOMAIN derived = {"state", "err"} /\ applied.fn = "none")

\* A generic enum whose variants all have a discriminant, refused.
C18_Witness ==
    /\ input.kind = "enum" /\ input.generics # 0
    /\ \A i \in 1..Len(input.variants) : input.variants[i].discriminant.some
    /\ derived.state = "error"

\* ------------------------------------------------------------------------
\* Further properties of the codec
\* ------------------------------------------------------------------------

\* The number of bytes of the window [off / 8, (off + len - 1) / 8] of a call.
WindowSize(c) == EndByte(c) - (c.off \div 8) + 1

\* The window sizes the match arms of a container handle.
Arms(ty) ==
    CASE ty = 8 -> 1..2
      [] ty = 16 -> 2..3
      [] ty = 32 -> 3..5
      [] ty = 64 -> 5..9

\* The size of the window of a call is one its container handles.
SizeHandled(c) ==
    c.len \in Band(c.ty) =>
        /\ WindowSize(c) >= (c.len + 7) \div 8
        /\ WindowSize(c) <= ((c.len + 7) \div 8) + 1
        /\ WindowSize(c) <= 9
        /\ WindowSize(c) \in Arms(c.ty)

\* C21: window size.  For every offset and every length in the band of a
\* container the window has ceil(len / 8) or ceil(len / 8) + 1 bytes, at
\* most 9, a size that an arm of the container's load and store handles;
\* no call of load or store reaches an unreachable!() arm.
C21_WindowSize ==
    /\ stored.done => (SizeHandled(stored) /\ stored.site # "unreachable")
    /\ loaded.done => (SizeHandled(loaded) /\ loaded.site # "unreachable")
    /\ (stored.done /\ stored.site = "ok") => Len(stored.prior) >= WindowSize(stored)
    /\ (loaded.done /\ loaded.site = "ok") => Len(data) >= WindowSize(loaded)

\* A 64-bit load through a window of nine bytes that begins in byte 1.
C21_Witness ==
    /\ loaded.done /\ loaded.site = "ok"
    /\ loaded.ty = 64 /\ loaded.len = 64
    /\ loaded.off \div 8 = 1
    /\ WindowSize(loaded) = 9

\* C22: store against a reference.  For every offset o, width w, value v
\* and prior content B, after store(o, w, buf, v) the buffer is
\* (B AND NOT ((2^w - 1) << o)) OR ((v mod 2^w) << o): bit j is bit j - o of
\* v inside [o, o + w) and the old bit outside; storing 0 into all ones
\* clears exactly the field, storing ones into zeros sets exactly the field.
C22_StoreReference ==
    (stored.done /\ stored.site = "ok") =>
        /\ Len(data) = Len(stored.prior)
        /\ \A j \in 0..(8 * Len(data) - 1) :
              BufBit(data, j) <=>
                  IF j >= stored.off /\ j < stored.off + stored.len
                  THEN (j - stored.off) \in stored.val
                  ELSE BufBit(stored.prior, j)

\* Every byte of the buffer is 0.
AllZero(d) == \A k \in 1..Len(d) : d[k] = 0

\* C23: store into a zeroed buffer.  For every offset, every width and
\* every v < 2^w, after store of v into an all-zero buffer the load of the
\* field returns v, the field holds the bits of v and every bit outside
\* [o, o + w) is still 0.
C23_StoreIntoZero ==
    (stored.done /\ stored.site = "ok" /\ AllZero(stored.prior)
        /\ stored.val \subseteq Bit(stored.len)) =>
        /\ \A j \in 0..(8 * Len(data) - 1) :
              BufBit(data, j) <=>
                  (j >= stored.off /\ j < stored.off + stored.len
                      /\ (j - stored.off) \in stored.val)
        /\ loaded.done => (loaded.site = "ok" /\ loaded.val = stored.val)

\* 0x1675 in a 13-bit field that begins at bit 7 of a byte of a zeroed
\* buffer (a window of three bytes), read back.
C23_Witness ==
    /\ stored.done /\ stored.site = "ok" /\ AllZero(stored.prior)
    /\ stored.len = 13 /\ stored.off % 8 = 7
    /\ stored.val = {0, 2, 4, 5, 6, 9, 10, 12}
    /\ loaded.done /\ loaded.val = stored.val
    /\ Len(data) > WindowSize(stored)

\* Bit i of byte k (from 0) of the window of a store, before and after it.
OldBit(k, i) == BufBit(stored.prior, 8 * ((stored.off \div 8) + k) + i)
NewBit(k, i) == BufBit(data, 8 * ((stored.off \div 8) + k) + i)

\* Bit i of byte k of the value of a store (its low len bits) shifted left
\* by the bit offset inside the first byte.
ShiftedBit(k, i) ==
    LET j == 8 * k + i - (stored.off % 8)
    IN j >= 0 /\ j < stored.len /\ j \in stored.val

\* A successful store through a window of several bytes.
SeveralBytes == stored.done /\ stored.site = "ok" /\ WindowSize(stored) >= 2

C25_RoundTripOffBoundary ==
    (stored.done /\ stored.site = "ok"
        /\ (WindowSize(stored) = 1 \/ (stored.off + stored.len) % 8 # 0)) =>
        /\ \A j \in 0..(stored.len - 1) :
              BufBit(data, stored.off + j) <=> (j \in stored.val)
        /\ loaded.done =>
              (loaded.site = "ok" /\ loaded.val = stored.val \cap Bit(stored.len))

\* 0 stored over all ones through several bytes, the field ending inside
\* the last one, and read back as 0.
C25_Witness ==
    /\ SeveralBytes
    /\ (stored.off + stored.len) % 8 # 0
    /\ stored.val = ZERO
    /\ Len(stored.prior) > 0 /\ \A k \in 1..Len(stored.prior) : stored.prior[k] = 255
    /\ loaded.done /\ loaded.val = ZERO

\* ------------------------------------------------------------------------
\* Pair harness: two stores to disjoint bit ranges of one buffer, run in
\* both orders on two copies of it (`data` stays the prior content).  The
\* container of a store is the one whose band holds its length, as in the
\* generated setters.
\* ------------------------------------------------------------------------

\* Lengths of the two fields: both ends of the band of every container.
PairLengths == {1, 8, 9, 16, 17, 32, 33} \cup {5}
\* Bits between the end of the lower field and the start of the upper one.
Gaps == {0, 3}

PairBuffers == {b \in Buffers : Len(b) = MaxBytes}

Call(off, len, val) == [ty |-> B(len).item, off |-> off, len |-> len, val |-> val]
Apply(c, d) == store(c.ty, c.off, c.len, d, c.val)
Disjoint(a, b) == a.off + a.len <= b.off \/ b.off + b.len <= a.off

InitPair ==
    /\ data \in PairBuffers
    /\ stored = NoStore
    /\ loaded = NoLoad
    /\ decl = << >>
    /\ gen = NotExpanded
    /\ self = NoInstance
    /\ hist = << >>
    /\ got = NoGet
    /\ specifier = bool
    /\ setcall = NoSet
    /\ getcall = NoGetCall
    /\ input = NoInput
    /\ derived = NotDerived
    /\ applied = NotApplied
    /\ pair = NoPair
    /\ variants = << >>
    /\ scan = NotScanned
    /\ target = << >>
    /\ the_builder = NoBuilder
    /\ calls = << >>
    /\ built = NotBuilt

\* The first store of each order: a on one copy, b on the other.
StoreFirst ==
    /\ pair.done = 0
    /\ \E off \in Offsets, la \in PairLengths, gap \in Gaps, lb \in PairLengths :
         \E va \in Values(B(la).item, la), vb \in Values(B(lb).item, lb) :
            LET a == Call(off, la, va)
                b == Call(off + la + gap, lb, vb)
            IN \E ra \in {Apply(a, data)}, rb \in {Apply(b, data)} :
                /\ Disjoint(a, b)
                /\ ra.site = "ok"
                /\ rb.site = "ok"
                /\ pair' = [done |-> 1, a |-> a, b |-> b, ab |-> ra.data, ba |-> rb.data]
    /\ UNCHANGED << codec_vars, struct_vars, access_vars, derive_vars, sorted_vars, builder_vars >>

\* The second store of each order: b after a, a after b.
StoreSecond ==
    /\ pair.done = 1
    /\ \E rb \in {Apply(pair.b, pair.ab)}, ra \in {Apply(pair.a, pair.ba)} :
         /\ ra.site = "ok"
         /\ rb.site = "ok"
         /\ pair' = [pair EXCEPT !.done = 2, !.ab = rb.data, !.ba = ra.data]
    /\ UNCHANGED << codec_vars, struct_vars, access_vars, derive_vars, sorted_vars, builder_vars >>

NextPair ==
    \/ StoreFirst
    \/ StoreSecond

SpecPair == InitPair /\ [][NextPair]_vars

\* C26: two stores to disjoint bit ranges commute: over every prior content
\* both orders leave the same buffer, also when the two fields share a byte.
C26_StoresCommute ==
    pair.done = 2 => pair.ab = pair.ba

\* Both orders ran for two multi-byte fields that share a byte, over mixed
\* prior content, and changed the buffer.
C26_Witness ==
    /\ pair.done = 2
    /\ pair.a.len >= 9
    /\ pair.b.len >= 9
    /\ pair.b.off = pair.a.off + pair.a.len
    /\ pair.b.off % 8 # 0
    /\ data[1] = MixedByte(1)
    /\ pair.ab # data

\* ------------------------------------------------------------------------
\* Bn<I, N> with I wider than the container of N
\* ------------------------------------------------------------------------

\* The value type of the specifier is wider than the container of its BITS.
WiderThanContainer(S) ==
    S.kind = "Bn" /\ S.bits \in 1..64 /\ S.item > Container(S.bits)

\* C27: for Bn<I, N> with I wider than the container of N, set with a value
\* that does not fit the container fails before the buffer is touched, and
\* a value that fits the container is stored truncated to its low N bits:
\* after the call the field holds val mod 2^N.
C27_WideValueType ==
    (setcall.done /\ WiderThanContainer(specifier)) =>
        LET fits == setcall.val \subseteq Bit(Container(specifier.bits)) IN
        /\ ~fits => (setcall.site = "convert" /\ data = setcall.prior)
        /\ (fits /\ InBuffer(setcall.prior, setcall.off, specifier.bits)) =>
              /\ setcall.site = "ok"
              /\ RawField(data, setcall.off, specifier.bits)
                    = LowOnes(U64, specifier.bits) \cap setcall.val

\* ------------------------------------------------------------------------
\* Sorted harness: sorted_enum on an enum whose variants have distinct
\* identifiers, one action per statement of the function: the sort, one
\* turn of the loop over the (declared, sorted) pairs, and the final Ok(()).
\* ------------------------------------------------------------------------

\* Variants of the enum: up to this many.
MaxSorted == 4

\* The identifiers A, Aa, B, Za, a, aB (as code points): a proper prefix, and
\* upper case before lower case.
Idents == { << 65 >>, << 65, 97 >>, << 66 >>, << 90, 97 >>, << 97 >>, << 97, 66 >> }

\* The variant lists: every list of up to MaxSorted distinct identifiers.
VariantLists ==
    UNION {{[i \in 1..n |-> [ident |-> f[i]]] :
              f \in {g \in [1..n -> Idents] : \A i, j \in 1..n : i # j => g[i] # g[j]}} :
           n \in 0..MaxSorted}

InitSorted ==
    /\ data = << >>
    /\ stored = NoStore
    /\ loaded = NoLoad
    /\ decl = << >>
    /\ gen = NotExpanded
    /\ self = NoInstance
    /\ hist = << >>
    /\ got = NoGet
    /\ specifier = bool
    /\ setcall = NoSet
    /\ getcall = NoGetCall
    /\ input = NoInput
    /\ derived = NotDerived
    /\ applied = NotApplied
    /\ pair = NoPair
    /\ variants \in VariantLists
    /\ scan = NotScanned
    /\ target = << >>
    /\ the_builder = NoBuilder
    /\ calls = << >>
    /\ built = NotBuilt

\* let mut sorted = variants.clone(); sorted.sort_by(..); the iterator at its start.
Sort ==
    /\ scan.state = "none"
    /\ scan' = [state |-> "scanning", sorted |-> sort_by(variants), pos |-> 0, msg |-> << >>]
    /\ UNCHANGED << codec_vars, struct_vars, access_vars, derive_vars, pair_vars,
                    builder_vars, variants >>

\* One turn of "while let Some((l, r)) = iter.next()": a pair that differs
\* and has a successor (iter.peek()) returns the error, any other moves on.
ScanNext ==
    /\ scan.state = "scanning"
    /\ scan.pos < Len(variants)
    /\ LET i == scan.pos + 1
           l == variants[i]
           r == scan.sorted[i]
       IN IF l # r /\ i < Len(variants)
            THEN scan' = [scan EXCEPT !.state = "err", !.pos = i,
                                      !.msg = << r.ident, scan.sorted[i + 1].ident >>]
            ELSE scan' = [scan EXCEPT !.pos = i]
    /\ UNCHANGED << codec_vars, struct_vars, access_vars, derive_vars, pair_vars,
                    builder_vars, variants >>

\* iter.next() is None: Ok(()).
ScanEnd ==
    /\ scan.state = "scanning"
    /\ scan.pos = Len(variants)
    /\ scan' = [scan EXCEPT !.state = "ok"]
    /\ UNCHANGED << codec_vars, struct_vars, access_vars, derive_vars, pair_vars,
                    builder_vars, variants >>

NextSorted ==
    \/ Sort
    \/ ScanNext
    \/ ScanEnd

SpecSorted == InitSorted /\ [][NextSorted]_vars

\* a sorts strictly before b: a differs from b at a first position where a has
\* ended or has the smaller character.
Before(a, b) ==
    \E k \in 1..Len(b) :
        /\ \A j \in 1..(k - 1) : j <= Len(a) /\ a[j] = b[j]
        /\ k > Len(a) \/ a[k] < b[k]

\* The variants are declared in ascending order of their identifiers.
Ascending(v) == \A i \in 1..(Len(v) - 1) : Before(v[i].ident, v[i + 1].ident)

\* C28: for variants with distinct identifiers, sorted_enum returns Ok exactly
\* when they are declared in ascending identifier order (the empty enum and
\* one variant included); for a list that is not, the scan returns the error
\* at a position whose pair differs and which has a successor; the scan
\* passes no pair that differs, and never stops before one of the two results.
C28_SortedEnum ==
    /\ scan.state = "ok" => Ascending(variants)
    /\ scan.state = "err" =>
          /\ ~Ascending(variants)
          /\ scan.pos < Len(variants)
          /\ variants[scan.pos] # scan.sorted[scan.pos]
    /\ scan.state = "scanning" =>
          /\ ENABLED NextSorted
          /\ \A i \in 1..scan.pos : variants[i] = scan.sorted[i]
    /\ (scan.state = "scanning" /\ scan.pos = Len(variants)) => Ascending(variants)

\* An enum of four variants whose first two are in order and whose last two
\* are swapped was rejected.
C28_Witness ==
    /\ scan.state = "err"
    /\ Len(variants) = 4
    /\ scan.pos = 3
    /\ Before(variants[1].ident, variants[2].ident)

\* ------------------------------------------------------------------------
\* Builder harness: a struct under #[derive(Builder)]; builder() is called,
\* then setters and build() in any order.  The structs are those whose
\* expansion compiles: each = ".." only on a Vec field.
\* ------------------------------------------------------------------------

\* Setter calls on one builder.
MaxCalls == 4

\* Values passed to the setters.
BuilderValues == {"x", "y"}

Field(ty, has_each) == [ty |-> ty, each |-> has_each]

\* The structs: no field, one field of every kind (a Vec without the
\* attribute is a required field), and two and three fields of mixed kinds.
Targets ==
    LET T == Field("T", FALSE)
        O == Field("Option", FALSE)
        V == Field("Vec", FALSE)
        E == Field("Vec", TRUE)
    IN { << >>, << T >>, << O >>, << V >>, << E >>,
         << T, T >>, << T, O >>, << T, E >>, << O, E >>,
         << T, O, E >>, << E, T, O >>, << T, V, E >> }

InitBuilder ==
    /\ data = << >>
    /\ stored = NoStore
    /\ loaded = NoLoad
    /\ decl = << >>
    /\ gen = NotExpanded
    /\ self = NoInstance
    /\ hist = << >>
    /\ got = NoGet
    /\ specifier = bool
    /\ setcall = NoSet
    /\ getcall = NoGetCall
    /\ input = NoInput
    /\ derived = NotDerived
    /\ applied = NotApplied
    /\ pair = NoPair
    /\ variants = << >>
    /\ scan = NotScanned
    /\ target \in Targets
    /\ the_builder = NoBuilder
    /\ calls = << >>
    /\ built = NotBuilt

\* let fields = data.fields.iter().map(TargetField::from)
fields == [i \in 1..Len(target) |-> TargetField_from(target[i])]

\* S::builder()
CallBuilder ==
    /\ ~the_builder.live
    /\ the_builder' = [live |-> TRUE, fields |-> builder(fields)]
    /\ UNCHANGED << codec_vars, struct_vars, access_vars, derive_vars, pair_vars,
                    sorted_vars, target, calls, built >>

\* builder.f(val) for a field f
CallSetter ==
    /\ the_builder.live
    /\ Len(calls) < MaxCalls
    /\ \E i \in 1..Len(target), val \in BuilderValues :
         /\ the_builder' = [the_builder EXCEPT !.fields = setter(fields, @, i, val)]
         /\ calls' = Append(calls, [field |-> i, val |-> val])
    /\ UNCHANGED << codec_vars, struct_vars, access_vars, derive_vars, pair_vars,
                    sorted_vars, target, built >>

\* builder.build()
CallBuild ==
    /\ the_builder.live
    /\ \E r \in {build(fields, the_builder.fields)} :
         /\ the_builder' = [the_builder EXCEPT !.fields = r.self]
         /\ built' = [done |-> TRUE, seen |-> Len(calls), ret |-> r.ret]
    /\ UNCHANGED << codec_vars, struct_vars, access_vars, derive_vars, pair_vars,
                    sorted_vars, target, calls >>

NextBuilder ==
    \/ CallBuilder
    \/ CallSetter
    \/ CallBuild

SpecBuilder == InitBuilder /\ [][NextBuilder]_vars

\* Field i is required: neither Option-typed nor builder(each = ..).
Required(i) == target[i].ty # "Option" /\ ~target[i].each

\* The positions of the setter calls of field i in the calls h, the value of
\* the last of them, and the values of all of them in call order.
SetsOf(h, i) == {k \in 1..Len(h) : h[k].field = i}
LastSet(h, i) == h[CHOOSE k \in SetsOf(h, i) : \A m \in SetsOf(h, i) : m <= k].val
AllSets(h, i) ==
    [j \in 1..Cardinality(SetsOf(h, i)) |->
        h[CHOOSE k \in SetsOf(h, i) : Cardinality({m \in SetsOf(h, i) : m < k}) = j - 1].val]

\* What the setter calls h make of field i, for a field that is not required.
Optional(h, i) ==
    IF target[i].each THEN AllSets(h, i)
    ELSE IF SetsOf(h, i) = {} THEN None ELSE Some(LastSet(h, i))

\* C29: the generated builder.  After any sequence of setter calls from
\* builder(), build() returns None exactly when a required field has never
\* been set; otherwise Some of the struct whose required fields hold the
\* value last set, whose Option fields hold Some of the value last set or
\* None, and whose each fields hold the items in call order.  build() does
\* not change the builder: its fields are at every moment what the setter
\* calls so far make of them, however often build() ran in between.
C29_Builder ==
    /\ built.done =>
          LET h == SubSeq(calls, 1, built.seen) IN
          /\ (built.ret = None) <=> (\E i \in 1..Len(target) : Required(i) /\ SetsOf(h, i) = {})
          /\ built.ret # None =>
                \A i \in 1..Len(target) :
                    built.ret.val[i] = IF Required(i) THEN LastSet(h, i) ELSE Optional(h, i)
    /\ the_builder.live =>
          \A i \in 1..Len(target) :
              the_builder.fields[i] =
                  IF ~Required(i) THEN Optional(calls, i)
                  ELSE IF SetsOf(calls, i) = {} THEN None ELSE Some(LastSet(calls, i))

\* The required field was set twice, two items were appended and the Option
\* field was never set; build() returned Some: the required field holds the
\* second value, the Option field None, the each field both items in order.
C29_Witness ==
    /\ target = << Field("T", FALSE), Field("Option", FALSE), Field("Vec", TRUE) >>
    /\ built.done /\ built.seen = 4
    /\ calls = << [field |-> 3, val |-> "y"], [field |-> 1, val |-> "x"],
                  [field |-> 1, val |-> "y"], [field |-> 3, val |-> "x"] >>
    /\ built.ret = Some(<< "y", None, << "y", "x" >> >>)
====
